---- MODULE Spec2Model ----
(***************************************************************************)
(* Model of test_app/c/main.c: the bounded RCU hash-table benchmark.       *)
(* One control thread (main: validation, setup, mutator loop, per-second   *)
(* sampling, final summary), core_nb-1 reader threads (read_rcu) and the   *)
(* call_rcu worker of liburcu that runs free_node_rcu after a grace period.*)
(***************************************************************************)
EXTENDS Integers, Sequences, FiniteSets, TLC

(* ----------------------------- bounds -------------------------------- *)
MaxLookups == 2     \* lookups the readers may start, all readers together
MaxNodes   == 2     \* struct mynode blocks malloc can hand out at one time
MaxCount   == 4     \* largest counter value a final summary is computed from
MaxSkew    == 2     \* most seconds gettimeofday may find elapsed since tv_lastsec

(* --------------------------- input domains --------------------------- *)
\* core_list[] as filled by the -c options (1-based here, 0-based in C)
CoreLists      == { <<>>, <<4>>, <<7, 3>> }
CoreLists3     == { <<5, 7, 3>> }          \* two readers and the mutator
SecondsChoices == {4, 5}
ObjectsChoices == {0, 1, 2}

NULL    == 0
Nodes   == 1..MaxNodes
Threads == 0..1                 \* indexes of thread_data[] (largest core list - 1)
Keys    == 0..1                 \* keys 0..objects-1 for the largest objects
RUNNING == -1                   \* exit_status while the process has not exited
SEGV    == 139                  \* exit status after a NULL dereference

VARIABLES
    core_list, core_nb, seconds, objects,     \* main(): parsed options
    pc, i, exit_status,                       \* main(): position, loop index, exit code
    global_ht,                                \* NULL or the table
    calloc_ok,                                \* which of the three calloc calls returned non-NULL
    thread_data, old_thread_data,             \* contents of the calloc'ed arrays
    master_core, master_aff,                  \* core reserved for main, main's affinity
    remaining_time,
    tv_sec,                                   \* tv.tv_sec - tv_lastsec, in seconds
    node_state, node_key,                     \* heap of struct mynode
    gp,                                       \* call_rcu: readers each queued node waits for
    at_unlink,                                \* readers inside a critical section at cds_lfht_del
    rpc, raff, rnode,                         \* read_rcu(): position, affinity, iter node
    iters,                                    \* completed loop iterations of read_rcu
    total, misses, hits,                      \* arguments of the per-worker printf
    lines,                                    \* "read:" lines printed so far
    key_found, key_not_found,                 \* main(): final accumulators
    summary                                   \* the "total read" triple, or <<>>

cfg   == <<core_list, seconds, objects>>
heap  == <<node_state, node_key, gp, at_unlink>>
rdr   == <<rpc, raff, rnode, iters>>
prt   == <<total, misses, hits, lines>>
fin   == <<key_found, key_not_found, summary>>
vars  == <<core_list, core_nb, seconds, objects, pc, i, exit_status, global_ht,
           calloc_ok, thread_data, old_thread_data, master_core,
           master_aff, remaining_time, tv_sec, node_state, node_key, gp, at_unlink,
           rpc, raff, rnode, iters, total, misses, hits, lines,
           key_found, key_not_found, summary>>

Arrays   == {"threads", "thread_data", "old_thread_data"}
ZeroData == [t \in Threads |-> [key_found |-> 0, key_not_found |-> 0, core_id |-> 0]]

\* the state at main.c:176, after the options were parsed
Start(lists, secs, objs) ==
    /\ core_list \in lists
    /\ core_nb = Len(core_list)
    /\ seconds \in secs
    /\ objects \in objs
    /\ pc = "validate"
    /\ i = 0
    /\ exit_status = RUNNING
    /\ global_ht = NULL
    /\ calloc_ok = [a \in Arrays |-> FALSE]
    /\ thread_data = ZeroData
    /\ old_thread_data = ZeroData
    /\ master_core = -1
    /\ master_aff = -1
    /\ remaining_time = 0
    /\ tv_sec = 0
    /\ node_state = [n \in Nodes |-> "free"]
    /\ node_key = [n \in Nodes |-> 0]
    /\ gp = [n \in Nodes |-> {}]
    /\ at_unlink = [n \in Nodes |-> {}]
    /\ rpc = [t \in Threads |-> "none"]
    /\ raff = [t \in Threads |-> -1]
    /\ rnode = [t \in Threads |-> NULL]
    /\ iters = [t \in Threads |-> 0]
    /\ total = 0
    /\ misses = 0
    /\ hits = 0
    /\ lines = 0
    /\ key_found = 0
    /\ key_not_found = 0
    /\ summary = <<>>

Init == Start(CoreLists, SecondsChoices, ObjectsChoices)

Alive == exit_status = RUNNING

(* ------------------------- main(): validation ------------------------ *)
\* the checks with the one on seconds left out
ConfigRejected_NoSeconds == core_nb < 2 \/ objects < 1

\* main.c:177-190, the three checks that return 1
ConfigRejected == core_nb < 2 \/ seconds < 5 \/ objects < 1

Validate ==
    /\ Alive /\ pc = "validate"
    /\ IF ConfigRejected
         THEN /\ exit_status' = 1
              /\ pc' = "exited"
         ELSE /\ pc' = "ht_new"
              /\ UNCHANGED exit_status
    /\ UNCHANGED <<cfg, tv_sec, core_nb, i, global_ht, calloc_ok, thread_data,
                   old_thread_data, master_core, master_aff, remaining_time, heap, rdr,
                   prt, fin>>

(* --------------------------- main(): setup --------------------------- *)
\* the loop condition written i <= limit: one iteration too many
LoopNext_OffByOne(limit, again, after) ==
    IF i + 1 <= limit THEN i' = i + 1 /\ pc' = again
                      ELSE i' = 0 /\ pc' = after

\* end of one iteration of a for loop of main: next index, or leave the loop
LoopNext(limit, again, after) ==
    IF i + 1 < limit THEN i' = i + 1 /\ pc' = again
                     ELSE i' = 0 /\ pc' = after

\* main.c:192-207: rcu_init, cds_lfht_new (NULL on failure), pthread_attr_init
HtNew ==
    /\ Alive /\ pc = "ht_new"
    /\ \E ht \in {NULL, 1} :
         /\ global_ht' = ht
         /\ IF ht = NULL
              THEN exit_status' = 1 /\ pc' = "exited"
              ELSE pc' = "calloc" /\ UNCHANGED exit_status
    /\ UNCHANGED <<cfg, tv_sec, core_nb, i, calloc_ok, thread_data, old_thread_data,
                   master_core, master_aff, remaining_time, heap, rdr, prt, fin>>

\* main.c:209-220: master_core = core_list[--core_nb]; the three unchecked
\* calloc calls; first gettimeofday
Calloc ==
    /\ Alive /\ pc = "calloc"
    /\ core_nb' = core_nb - 1
    /\ master_core' = core_list[core_nb]          \* 1-based: C index core_nb-1
    /\ calloc_ok' \in [Arrays -> BOOLEAN]
    /\ pc' = "wait_second"
    /\ UNCHANGED <<cfg, tv_sec, i, exit_status, global_ht, thread_data, old_thread_data,
                   master_aff, remaining_time, heap, rdr, prt, fin>>

\* gettimeofday (main.c:219, 224, 247): tv.tv_sec, counted from the second
\* held in tv_lastsec; 0 is "still the same second"
Gettimeofday == 0..MaxSkew

\* main.c:222-227: spin until the wall-clock second changes, then
\* tv_lastsec = tv.tv_sec
WaitSecond ==
    /\ Alive /\ pc = "wait_second"
    /\ \E now \in Gettimeofday :
         IF now = 0
           THEN UNCHANGED <<pc, i>>
           ELSE pc' = "create" /\ i' = 0
    /\ UNCHANGED <<cfg, tv_sec, core_nb, exit_status, global_ht, calloc_ok, thread_data,
                   old_thread_data, master_core, master_aff, remaining_time, heap, rdr,
                   prt, fin>>

\* the reader cores taken one place too far in core_list
reader_core_shifted(idx) == core_list[idx + 2]

\* main.c:230: core_list[i] (core_list is 1-based here)
reader_core(idx) == core_list[idx + 1]

\* main.c:229-232: one iteration of the thread-start loop.  Writing
\* thread_data[i].core_id or threads[i] through a NULL array is a crash.
CreateThread ==
    /\ Alive /\ pc = "create"
    /\ IF ~calloc_ok["thread_data"] \/ ~calloc_ok["threads"]
         THEN /\ exit_status' = SEGV
              /\ pc' = "exited"
              /\ UNCHANGED <<thread_data, rpc, i>>
         ELSE /\ thread_data' = [thread_data EXCEPT ![i].core_id = reader_core(i)]
              /\ rpc' = [rpc EXCEPT ![i] = "start"]
              /\ LoopNext(core_nb, "create", "master")
              /\ UNCHANGED exit_status
    /\ UNCHANGED <<cfg, tv_sec, core_nb, global_ht, calloc_ok, old_thread_data,
                   master_core, master_aff, remaining_time, heap, raff, rnode, iters,
                   prt, fin>>

\* set_affinity, main.c:41-49: the calling thread's CPU set becomes {core_id}
set_affinity(core_id) == core_id

\* main.c:234-239: pin main, rcu_register_thread, remaining_time = seconds
Master ==
    /\ Alive /\ pc = "master"
    /\ master_aff' = set_affinity(master_core)
    /\ remaining_time' = seconds
    /\ pc' = "add_node"
    /\ i' = 0
    /\ UNCHANGED <<cfg, tv_sec, core_nb, exit_status, global_ht, calloc_ok, thread_data,
                   old_thread_data, master_core, heap, rdr, prt, fin>>

(* ------------------------ the hash table and RCU --------------------- *)
\* match_cb with the comparison inverted
match_cb_negated(n, key) == key # node_key[n]

\* match_cb accepting every node of the chain
match_cb_any(n, key) == TRUE

\* match_cb, main.c:51-59: *key == node->key
match_cb(n, key) == key = node_key[n]

\* nodes linked in global_ht that match_cb accepts for key (all keys taken to
\* hash to one chain)
Matching(key) == {n \in Nodes : node_state[n] = "live" /\ match_cb(n, key)}

\* cds_lfht_lookup + cds_lfht_iter_get_node: a matching node or NULL
Lookup(key) == IF Matching(key) = {} THEN {NULL} ELSE Matching(key)

\* threads of read_rcu between urcu_memb_read_lock and urcu_memb_read_unlock
InCS(t) == rpc[t] \in {"lookup", "tally", "unlock"}
ReadersInCS == {t \in Threads : InCS(t)}

FreeBlocks == {n \in Nodes : node_state[n] = "free"}
Lowest(S)  == CHOOSE n \in S : \A m \in S : n <= m

(* -------------------------- add_node (103-121) ----------------------- *)
\* cds_lfht_add in the place of cds_lfht_add_replace: nothing is unlinked
add_replace_NoUnlink(nd, key) == [node_state EXCEPT ![nd] = "live"]

\* cds_lfht_add_replace (main.c:118): nd is linked; a node already linked
\* under the same key is unlinked and returned (add_node drops that pointer)
add_replace(nd, key) ==
    [n \in Nodes |-> IF n = nd THEN "live"
                     ELSE IF n \in Matching(key) THEN "replaced"
                     ELSE node_state[n]]

\* main.c:242-243 and add_node, 103-121: malloc (NULL when the heap is
\* exhausted, then add_node returns NULL and the caller goes on), node init,
\* key and value, cds_lfht_add_replace under the read lock
AddNode ==
    /\ Alive /\ pc = "add_node"
    /\ IF FreeBlocks = {}
         THEN UNCHANGED <<node_state, node_key>>
         ELSE LET n == Lowest(FreeBlocks) IN
              /\ node_state' = add_replace(n, i)
              /\ node_key' = [node_key EXCEPT ![n] = i]
    /\ LoopNext(objects, "add_node", "sleep")
    /\ UNCHANGED <<cfg, tv_sec, core_nb, exit_status, global_ht, calloc_ok, thread_data,
                   old_thread_data, master_core, master_aff, remaining_time, gp,
                   at_unlink, rdr, prt, fin>>

(* -------------------------- del_node (123-138) ----------------------- *)
\* urcu_memb_call_rcu (main.c:134): the node is queued for free_node_rcu, which
\* runs once every reader that is inside a read-side critical section now has
\* left it
call_rcu(n) == [gp EXCEPT ![n] = ReadersInCS]

\* del_node looking the node up and leaving it linked
DelNode_LookupOnly ==
    /\ Alive /\ pc = "del_node"
    /\ \E n \in Lookup(i) : UNCHANGED <<node_state, gp, at_unlink>>
    /\ LoopNext(objects, "del_node", "add_node")
    /\ UNCHANGED <<cfg, tv_sec, core_nb, exit_status, global_ht, calloc_ok, thread_data,
                   old_thread_data, master_core, master_aff, remaining_time, node_key,
                   rdr, prt, fin>>

\* del_node freeing the node itself instead of handing it to call_rcu
DelNode_FreeNow ==
    /\ Alive /\ pc = "del_node"
    /\ \E n \in Lookup(i) :
         IF n = NULL
           THEN UNCHANGED <<node_state, node_key, at_unlink>>
           ELSE /\ node_state' = [node_state EXCEPT ![n] = "free"]
                /\ node_key' = [node_key EXCEPT ![n] = 0]
                /\ at_unlink' = [at_unlink EXCEPT ![n] = ReadersInCS]
    /\ LoopNext(objects, "del_node", "add_node")
    /\ UNCHANGED <<cfg, tv_sec, core_nb, exit_status, global_ht, calloc_ok, thread_data,
                   old_thread_data, master_core, master_aff, remaining_time, gp, rdr,
                   prt, fin>>

\* main.c:271-272 and del_node, 123-138: lookup under the read lock; a node
\* found is unlinked with cds_lfht_del and handed to call_rcu
DelNode ==
    /\ Alive /\ pc = "del_node"
    /\ \E n \in Lookup(i) :
         IF n = NULL
           THEN UNCHANGED <<node_state, gp, at_unlink>>
           ELSE /\ node_state' = [node_state EXCEPT ![n] = "queued"]
                /\ at_unlink' = [at_unlink EXCEPT ![n] = ReadersInCS]
                /\ gp' = call_rcu(n)
    /\ LoopNext(objects, "del_node", "add_node")
    /\ UNCHANGED <<cfg, tv_sec, core_nb, exit_status, global_ht, calloc_ok, thread_data,
                   old_thread_data, master_core, master_aff, remaining_time, node_key,
                   rdr, prt, fin>>

\* free_node_rcu (main.c:61-67), run by the call_rcu worker after the grace period
FreeNodeRcu(n) ==
    /\ Alive
    /\ node_state[n] = "queued"
    /\ gp[n] = {}
    /\ node_state' = [node_state EXCEPT ![n] = "free"]
    /\ node_key' = [node_key EXCEPT ![n] = 0]
    /\ UNCHANGED <<cfg, tv_sec, core_nb, pc, i, exit_status, global_ht, calloc_ok,
                   thread_data, old_thread_data, master_core, master_aff,
                   remaining_time, gp, at_unlink, rdr, prt, fin>>

(* ------------------- main(): sampling (246-269) ---------------------- *)
\* the change of second never seen: main goes on to the remove phase
Sleep_NeverSamples ==
    /\ Alive /\ pc = "sleep"
    /\ tv_sec' \in Gettimeofday
    /\ pc' = "del_node"
    /\ i' = 0
    /\ UNCHANGED <<cfg, core_nb, exit_status, global_ht, calloc_ok, thread_data,
                   old_thread_data, master_core, master_aff, remaining_time, heap, rdr,
                   prt, fin>>

\* main.c:246-249: usleep, gettimeofday, has the second changed?
Sleep ==
    /\ Alive /\ pc = "sleep"
    /\ tv_sec' \in Gettimeofday
    /\ pc' = IF tv_sec' # 0 THEN "sample" ELSE "del_node"
    /\ i' = 0
    /\ UNCHANGED <<cfg, core_nb, exit_status, global_ht, calloc_ok, thread_data,
                   old_thread_data, master_core, master_aff, remaining_time, heap, rdr,
                   prt, fin>>

\* main.c:250-253: tv_lastsec = tv.tv_sec; printf("read: ")
Sample ==
    /\ Alive /\ pc = "sample"
    /\ tv_sec' = 0
    /\ pc' = "print_total_found"
    /\ UNCHANGED <<cfg, core_nb, i, exit_status, global_ht, calloc_ok, thread_data,
                   old_thread_data, master_core, master_aff, remaining_time, heap, rdr,
                   prt, fin>>

\* main.c:256, first load of the first printf argument:
\* thread_data[i].key_found ... - old_thread_data[i].key_found.
\* Reading old_thread_data[i] through a NULL array is a crash.
PrintTotalFound ==
    /\ Alive /\ pc = "print_total_found"
    /\ IF ~calloc_ok["old_thread_data"]
         THEN exit_status' = SEGV /\ pc' = "exited" /\ UNCHANGED total
         ELSE /\ total' = thread_data[i].key_found - old_thread_data[i].key_found
              /\ pc' = "print_total_not_found"
              /\ UNCHANGED exit_status
    /\ UNCHANGED <<cfg, tv_sec, core_nb, i, global_ht, calloc_ok, thread_data,
                   old_thread_data, master_core, master_aff, remaining_time, heap, rdr,
                   misses, hits, lines, fin>>

\* main.c:256, second load: + thread_data[i].key_not_found - old...key_not_found
PrintTotalNotFound ==
    /\ Alive /\ pc = "print_total_not_found"
    /\ total' = total + thread_data[i].key_not_found - old_thread_data[i].key_not_found
    /\ pc' = "print_misses"
    /\ UNCHANGED <<cfg, tv_sec, core_nb, i, exit_status, global_ht, calloc_ok,
                   thread_data, old_thread_data, master_core, master_aff,
                   remaining_time, heap, rdr, misses, hits, lines, fin>>

\* main.c:257: thread_data[i].key_not_found - old_thread_data[i].key_not_found
PrintMisses ==
    /\ Alive /\ pc = "print_misses"
    /\ misses' = thread_data[i].key_not_found - old_thread_data[i].key_not_found
    /\ pc' = "print_hits"
    /\ UNCHANGED <<cfg, tv_sec, core_nb, i, exit_status, global_ht, calloc_ok,
                   thread_data, old_thread_data, master_core, master_aff,
                   remaining_time, heap, rdr, total, hits, lines, fin>>

\* main.c:258 and the printf call of 255: the triple of worker i is printed
PrintHits ==
    /\ Alive /\ pc = "print_hits"
    /\ hits' = thread_data[i].key_found - old_thread_data[i].key_found
    /\ pc' = "save_found"
    /\ UNCHANGED <<cfg, tv_sec, core_nb, i, exit_status, global_ht, calloc_ok,
                   thread_data, old_thread_data, master_core, master_aff,
                   remaining_time, heap, rdr, total, misses, lines, fin>>

\* the assignment of main.c:260 written the wrong way round
SaveFound_Reversed ==
    /\ Alive /\ pc = "save_found"
    /\ thread_data' = [thread_data EXCEPT
                          ![i].key_found = old_thread_data[i].key_found]
    /\ total' = 0 /\ misses' = 0 /\ hits' = 0
    /\ pc' = "save_not_found"
    /\ UNCHANGED <<cfg, tv_sec, core_nb, i, exit_status, global_ht, calloc_ok,
                   old_thread_data, master_core, master_aff, remaining_time, heap, rdr,
                   lines, fin>>

\* the found snapshot taken from the wrong counter
SaveFound_WrongField ==
    /\ Alive /\ pc = "save_found"
    /\ old_thread_data' = [old_thread_data EXCEPT
                              ![i].key_found = thread_data[i].key_not_found]
    /\ total' = 0 /\ misses' = 0 /\ hits' = 0
    /\ pc' = "save_not_found"
    /\ UNCHANGED <<cfg, tv_sec, core_nb, i, exit_status, global_ht, calloc_ok,
                   thread_data, master_core, master_aff, remaining_time, heap, rdr,
                   lines, fin>>

\* main.c:260: old_thread_data[i].key_found = thread_data[i].key_found
\* (the printf arguments are gone once printf returned)
SaveFound ==
    /\ Alive /\ pc = "save_found"
    /\ old_thread_data' = [old_thread_data EXCEPT
                              ![i].key_found = thread_data[i].key_found]
    /\ total' = 0 /\ misses' = 0 /\ hits' = 0
    /\ pc' = "save_not_found"
    /\ UNCHANGED <<cfg, tv_sec, core_nb, i, exit_status, global_ht, calloc_ok,
                   thread_data, master_core, master_aff, remaining_time, heap, rdr,
                   lines, fin>>

\* main.c:261-263: old_thread_data[i].key_not_found = ...; after the last
\* worker the newline ends the "read:" line
SaveNotFound ==
    /\ Alive /\ pc = "save_not_found"
    /\ old_thread_data' = [old_thread_data EXCEPT
                              ![i].key_not_found = thread_data[i].key_not_found]
    /\ LoopNext(core_nb, "print_total_found", "countdown")
    /\ lines' = IF i + 1 < core_nb THEN lines ELSE lines + 1
    /\ UNCHANGED <<cfg, tv_sec, core_nb, exit_status, global_ht, calloc_ok, thread_data,
                   master_core, master_aff, remaining_time, heap, rdr, total, misses,
                   hits, fin>>

\* the countdown tested before it is decremented
Countdown_TestFirst ==
    /\ Alive /\ pc = "countdown"
    /\ remaining_time' = remaining_time - 1
    /\ pc' = IF remaining_time = 0 THEN "sum_found" ELSE "del_node"
    /\ UNCHANGED <<cfg, tv_sec, core_nb, i, exit_status, global_ht, calloc_ok,
                   thread_data, old_thread_data, master_core, master_aff, heap, rdr,
                   prt, fin>>

\* main.c:265-268 and 276-280: remaining_time -= 1; break when it is 0
Countdown ==
    /\ Alive /\ pc = "countdown"
    /\ remaining_time' = remaining_time - 1
    /\ pc' = IF remaining_time - 1 = 0 THEN "sum_found" ELSE "del_node"
    /\ UNCHANGED <<cfg, tv_sec, core_nb, i, exit_status, global_ht, calloc_ok,
                   thread_data, old_thread_data, master_core, master_aff, heap, rdr,
                   prt, fin>>

(* ------------------- main(): final summary (278-294) ----------------- *)
\* main.c:283: key_found += thread_data[i].key_found
SumFound ==
    /\ Alive /\ pc = "sum_found"
    /\ key_found' = key_found + thread_data[i].key_found
    /\ pc' = "sum_not_found"
    /\ UNCHANGED <<cfg, tv_sec, core_nb, i, exit_status, global_ht, calloc_ok,
                   thread_data, old_thread_data, master_core, master_aff,
                   remaining_time, heap, rdr, prt, key_not_found, summary>>

\* main.c:284: key_not_found += thread_data[i].key_not_found
SumNotFound ==
    /\ Alive /\ pc = "sum_not_found"
    /\ key_not_found' = key_not_found + thread_data[i].key_not_found
    /\ LoopNext(core_nb, "sum_found", "summary")
    /\ UNCHANGED <<cfg, tv_sec, core_nb, exit_status, global_ht, calloc_ok, thread_data,
                   old_thread_data, master_core, master_aff, remaining_time, heap, rdr,
                   prt, key_found, summary>>

\* the average total written without its parentheses
Summary_NoParens ==
    /\ Alive /\ pc = "summary"
    /\ summary' = << key_found + (key_not_found \div seconds),
                     key_not_found \div seconds,
                     key_found \div seconds >>
    /\ exit_status' = 0
    /\ pc' = "exited"
    /\ UNCHANGED <<cfg, tv_sec, core_nb, i, global_ht, calloc_ok, thread_data,
                   old_thread_data, master_core, master_aff, remaining_time, heap, rdr,
                   prt, key_found, key_not_found>>

\* main.c:287-294: the "total read" line (unsigned division), return 0
Summary ==
    /\ Alive /\ pc = "summary"
    /\ summary' = << (key_found + key_not_found) \div seconds,
                     key_not_found \div seconds,
                     key_found \div seconds >>
    /\ exit_status' = 0
    /\ pc' = "exited"
    /\ UNCHANGED <<cfg, tv_sec, core_nb, i, global_ht, calloc_ok, thread_data,
                   old_thread_data, master_core, master_aff, remaining_time, heap, rdr,
                   prt, key_found, key_not_found>>

(* -------------------------- read_rcu (70-101) ------------------------ *)
\* main.c:72-77: key = 0, set_affinity(thread_data->core_id), rcu_register_thread
ReaderStart(t) ==
    /\ Alive /\ rpc[t] = "start"
    /\ raff' = [raff EXCEPT ![t] = set_affinity(thread_data[t].core_id)]
    /\ rpc' = [rpc EXCEPT ![t] = "lock"]
    /\ UNCHANGED <<cfg, tv_sec, core_nb, pc, i, exit_status, global_ht, calloc_ok,
                   thread_data, old_thread_data, master_core, master_aff,
                   remaining_time, heap, rnode, iters, prt, fin>>

\* lookups started so far by all readers (tallied or still in flight)
RECURSIVE LookupsStarted(_)
LookupsStarted(T) ==
    IF T = {} THEN 0
    ELSE LET t == CHOOSE x \in T : TRUE IN
         thread_data[t].key_found + thread_data[t].key_not_found
         + (IF rpc[t] \in {"lookup", "tally"} THEN 1 ELSE 0)
         + LookupsStarted(T \ {t})

\* main.c:79-84: while(1), jhash, urcu_memb_read_lock
ReaderLock(t) ==
    /\ Alive /\ rpc[t] = "lock"
    /\ LookupsStarted(Threads) < MaxLookups
    /\ rpc' = [rpc EXCEPT ![t] = "lookup"]
    /\ UNCHANGED <<cfg, tv_sec, core_nb, pc, i, exit_status, global_ht, calloc_ok,
                   thread_data, old_thread_data, master_core, master_aff,
                   remaining_time, heap, raff, rnode, iters, prt, fin>>

\* main.c:86-88: cds_lfht_lookup of key 0, cds_lfht_iter_get_node
ReaderLookup(t) ==
    /\ Alive /\ rpc[t] = "lookup"
    /\ \E n \in Lookup(0) : rnode' = [rnode EXCEPT ![t] = n]
    /\ rpc' = [rpc EXCEPT ![t] = "tally"]
    /\ UNCHANGED <<cfg, tv_sec, core_nb, pc, i, exit_status, global_ht, calloc_ok,
                   thread_data, old_thread_data, master_core, master_aff,
                   remaining_time, heap, raff, iters, prt, fin>>

\* the tally without its else: a hit counts as a miss too
ReaderTally_NoElse(t) ==
    /\ Alive /\ rpc[t] = "tally"
    /\ thread_data' = IF rnode[t] # NULL
                        THEN [thread_data EXCEPT ![t].key_found = @ + 1,
                                                 ![t].key_not_found = @ + 1]
                        ELSE [thread_data EXCEPT ![t].key_not_found = @ + 1]
    /\ rpc' = [rpc EXCEPT ![t] = "unlock"]
    /\ UNCHANGED <<cfg, tv_sec, core_nb, pc, i, exit_status, global_ht, calloc_ok,
                   old_thread_data, master_core, master_aff, remaining_time, heap, raff,
                   rnode, iters, prt, fin>>

\* main.c:89-93: if (ht_node) key_found += 1; else key_not_found += 1
ReaderTally(t) ==
    /\ Alive /\ rpc[t] = "tally"
    /\ thread_data' = IF rnode[t] # NULL
                        THEN [thread_data EXCEPT ![t].key_found = @ + 1]
                        ELSE [thread_data EXCEPT ![t].key_not_found = @ + 1]
    /\ rpc' = [rpc EXCEPT ![t] = "unlock"]
    /\ UNCHANGED <<cfg, tv_sec, core_nb, pc, i, exit_status, global_ht, calloc_ok,
                   old_thread_data, master_core, master_aff, remaining_time, heap, raff,
                   rnode, iters, prt, fin>>

\* main.c:95-96: urcu_memb_read_unlock, end of the iteration (iter goes out of
\* scope); grace periods no longer wait for this reader
ReaderUnlock(t) ==
    /\ Alive /\ rpc[t] = "unlock"
    /\ rnode' = [rnode EXCEPT ![t] = NULL]
    /\ iters' = [iters EXCEPT ![t] = @ + 1]
    /\ gp' = [n \in Nodes |-> gp[n] \ {t}]
    /\ at_unlink' = [n \in Nodes |-> at_unlink[n] \ {t}]
    /\ rpc' = [rpc EXCEPT ![t] = "lock"]
    /\ UNCHANGED <<cfg, tv_sec, core_nb, pc, i, exit_status, global_ht, calloc_ok,
                   thread_data, old_thread_data, master_core, master_aff,
                   remaining_time, node_state, node_key, raff, prt, fin>>

Reader(t) == \/ ReaderStart(t) \/ ReaderLock(t) \/ ReaderLookup(t)
             \/ ReaderTally(t) \/ ReaderUnlock(t)

Main == \/ Validate \/ HtNew \/ Calloc \/ WaitSecond \/ CreateThread \/ Master
        \/ AddNode \/ Sleep \/ Sample
        \/ PrintTotalFound \/ PrintTotalNotFound \/ PrintMisses \/ PrintHits
        \/ SaveFound \/ SaveNotFound \/ Countdown
        \/ DelNode
        \/ SumFound \/ SumNotFound \/ Summary

Next == \/ Main
        \/ \E t \in Threads : Reader(t)
        \/ \E n \in Nodes : FreeNodeRcu(n)

Spec == Init /\ [][Next]_vars

\* the same program started with three core ids: two reader threads
Init3 == Start(CoreLists3, {5}, {1})
Spec3 == Init3 /\ [][Next]_vars

\* every thread runs on a core of its own: no thread is starved
Fairness == /\ WF_vars(Main)
            /\ \A t \in Threads : WF_vars(Reader(t))
            /\ \A n \in Nodes : WF_vars(FreeNodeRcu(n))
FairSpec == Init /\ [][Next]_vars /\ Fairness

\* main runs on a core of its own (set_affinity(master_core), main.c:234) and
\* the wall clock read by gettimeofday keeps advancing; nothing is assumed
\* about the readers or the call_rcu worker
ClockAdvances == /\ SF_vars(WaitSecond /\ pc' = "create")
                 /\ SF_vars(Sleep /\ tv_sec' # 0)
InitOneObject == Start({l \in CoreLists : Len(l) >= 2}, {5}, {1})
MainFairSpec == InitOneObject /\ [][Next]_vars /\ WF_vars(Main) /\ ClockAdvances

\* The final computation on its own (main.c:276-294), from the states in
\* which the loop was left: every valid configuration, any counter values.
FinalLists   == {l \in CoreLists \cup CoreLists3 : Len(l) >= 2}
FinalSeconds == {5, 7}
FinalData(l) ==
    { [t \in Threads |->
          IF t < Len(l) - 1
            THEN [key_found |-> c[t][1], key_not_found |-> c[t][2], core_id |-> l[t + 1]]
            ELSE [key_found |-> 0, key_not_found |-> 0, core_id |-> 0]] :
      c \in [Threads -> (0..MaxCount) \X (0..MaxCount)] }

InitFinal ==
    /\ core_list \in FinalLists
    /\ core_nb = Len(core_list) - 1
    /\ seconds \in FinalSeconds
    /\ objects \in {o \in ObjectsChoices : o >= 1}
    /\ pc = "sum_found"
    /\ i = 0
    /\ exit_status = RUNNING
    /\ global_ht = 1
    /\ calloc_ok = [a \in Arrays |-> TRUE]
    /\ thread_data \in FinalData(core_list)
    /\ old_thread_data = ZeroData
    /\ master_core = core_list[Len(core_list)]
    /\ master_aff = core_list[Len(core_list)]
    /\ remaining_time = 0
    /\ tv_sec = 0
    /\ node_state = [n \in Nodes |-> IF n <= objects THEN "live" ELSE "free"]
    /\ node_key = [n \in Nodes |-> IF n <= objects THEN n - 1 ELSE 0]
    /\ gp = [n \in Nodes |-> {}]
    /\ at_unlink = [n \in Nodes |-> {}]
    /\ rpc = [t \in Threads |-> IF t < core_nb THEN "lock" ELSE "none"]
    /\ raff = [t \in Threads |-> IF t < core_nb THEN core_list[t + 1] ELSE -1]
    /\ rnode = [t \in Threads |-> NULL]
    /\ iters = [t \in Threads |->
                   thread_data[t].key_found + thread_data[t].key_not_found]
    /\ total = 0
    /\ misses = 0
    /\ hits = 0
    /\ lines = seconds
    /\ key_found = 0
    /\ key_not_found = 0
    /\ summary = <<>>

NextFinal == SumFound \/ SumNotFound \/ Summary
SpecFinal == InitFinal /\ [][NextFinal]_vars

\* add_node and del_node under any caller: the state after setup with three
\* core ids (two readers started), then calls in any order with any key of
\* 0..objects-1, the readers and the call_rcu worker running along
InitOps ==
    /\ core_list \in CoreLists3
    /\ core_nb = Len(core_list) - 1
    /\ seconds = 5
    /\ objects = 2
    /\ pc = "add_node"
    /\ i = 0
    /\ exit_status = RUNNING
    /\ global_ht = 1
    /\ calloc_ok = [a \in Arrays |-> TRUE]
    /\ thread_data = [t \in Threads |->
                        [key_found |-> 0, key_not_found |-> 0, core_id |-> core_list[t + 1]]]
    /\ old_thread_data = ZeroData
    /\ master_core = core_list[Len(core_list)]
    /\ master_aff = core_list[Len(core_list)]
    /\ remaining_time = seconds
    /\ tv_sec = 0
    /\ node_state = [n \in Nodes |-> "free"]
    /\ node_key = [n \in Nodes |-> 0]
    /\ gp = [n \in Nodes |-> {}]
    /\ at_unlink = [n \in Nodes |-> {}]
    /\ rpc = [t \in Threads |-> "start"]
    /\ raff = [t \in Threads |-> -1]
    /\ rnode = [t \in Threads |-> NULL]
    /\ iters = [t \in Threads |-> 0]
    /\ total = 0
    /\ misses = 0
    /\ hits = 0
    /\ lines = 0
    /\ key_found = 0
    /\ key_not_found = 0
    /\ summary = <<>>

\* the caller's choice of the next call: add_node(global_ht, k, 0) or
\* del_node(global_ht, k)
AnyCall ==
    /\ Alive /\ pc \in {"add_node", "del_node", "sleep"}
    /\ pc' \in {"add_node", "del_node"}
    /\ i' \in 0..(objects - 1)
    /\ UNCHANGED <<cfg, tv_sec, core_nb, exit_status, global_ht, calloc_ok, thread_data,
                   old_thread_data, master_core, master_aff, remaining_time, heap, rdr,
                   prt, fin>>

NextOps == \/ AnyCall \/ AddNode \/ DelNode
           \/ \E t \in Threads : Reader(t)
           \/ \E n \in Nodes : FreeNodeRcu(n)
SpecOps == InitOps /\ [][NextOps]_vars

TypeOK ==
    /\ core_list \in CoreLists \cup CoreLists3
    /\ core_nb \in 0..3
    /\ pc \in {"validate", "ht_new", "calloc", "wait_second", "create", "master",
               "add_node", "sleep", "sample", "print_total_found", "print_total_not_found",
               "print_misses", "print_hits", "save_found", "save_not_found",
               "countdown", "del_node", "sum_found", "sum_not_found", "summary",
               "exited"}
    /\ i \in 0..2
    /\ exit_status \in {RUNNING, 0, 1, SEGV}
    /\ node_state \in [Nodes -> {"free", "live", "queued", "replaced"}]
    /\ node_key \in [Nodes -> Keys]
    /\ gp \in [Nodes -> SUBSET Threads]
    /\ rpc \in [Threads -> {"none", "start", "lock", "lookup", "tally", "unlock",
                            "stopped"}]
    /\ rnode \in [Threads -> Nodes \cup {NULL}]
    /\ remaining_time \in 0..5
    /\ tv_sec \in Gettimeofday
    /\ lines \in 0..5

(* ============================== claims =============================== *)
LoopPcs  == {"add_node", "sleep", "sample", "print_total_found", "print_total_not_found",
             "print_misses", "print_hits", "save_found", "save_not_found",
             "countdown", "del_node"}
FinalPcs == {"sum_found", "sum_not_found", "summary"}
Completed == pc = "exited" /\ exit_status = 0
Started(t) == rpc[t] # "none"
AllReadersStopped == \A t \in Threads : rpc[t] \in {"none", "stopped"}
Lookups(t) == thread_data[t].key_found + thread_data[t].key_not_found

\* C1: a node that free_node_rcu has freed is held by no reader, and no reader
\* that was inside a read-side critical section when the node was unlinked is
\* still inside that critical section.
C1_NoReaderHoldsFreedNode ==
    \A n \in Nodes :
        node_state[n] = "free" =>
            /\ at_unlink[n] = {}
            /\ \A t \in Threads : rnode[t] # n

\* a reader inside its critical section holds a node that del_node has
\* unlinked and queued: the grace period is what keeps it allocated
C1_Witness ==
    \E n \in Nodes, t \in Threads :
        node_state[n] = "queued" /\ rnode[t] = n /\ t \in at_unlink[n]

\* C2 (as claimed): while main computes and prints the final sums every
\* started reader has stopped, so no reader counter changes any more.
C2_ReadersStoppedAtSummary ==
    [][ (pc \in FinalPcs) => (AllReadersStopped /\ thread_data' = thread_data) ]_vars

\* C3 (as claimed): once the countdown has reached zero every reader
\* eventually leaves its loop and reaches Stopped.
C3_ReadersEventuallyStop ==
    (pc \in FinalPcs \/ Completed) ~> AllReadersStopped

\* C4: a configuration with fewer than 2 cores, seconds < 5 or objects < 1
\* only ever exits with status 1: no hash table, no reader thread, no insert.
C4_RejectedBeforeAnyWork ==
    (Len(core_list) < 2 \/ seconds < 5 \/ objects < 1) =>
        /\ pc \in {"validate", "exited"}
        /\ pc = "exited" => exit_status = 1
        /\ global_ht = NULL
        /\ \A t \in Threads : ~Started(t)
        /\ \A n \in Nodes : node_state[n] = "free"

\* a run with two cores and one object was rejected for its 4 seconds
C4_Witness ==
    /\ pc = "exited" /\ exit_status = 1
    /\ seconds < 5 /\ Len(core_list) >= 2 /\ objects >= 1

\* C5: found + not_found of a reader never decreases, each step adds at most
\* 1 to exactly one of the two counters, and the sum is the number of
\* iterations the reader has completed (plus the one whose tally is made but
\* whose read_unlock has not run yet).
C5_CountsIterations ==
    /\ [](\A t \in Threads :
            Lookups(t) = iters[t] + (IF rpc[t] = "unlock" THEN 1 ELSE 0))
    /\ [][\A t \in Threads :
            LET f  == thread_data[t].key_found
                nf == thread_data[t].key_not_found
                f2  == thread_data'[t].key_found
                nf2 == thread_data'[t].key_not_found
            IN  <<f2, nf2>> \in {<<f, nf>>, <<f + 1, nf>>, <<f, nf + 1>>}]_vars

\* a reader completed two iterations, one hit and one miss
C5_Witness ==
    \E t \in Threads :
        /\ iters[t] = 2
        /\ thread_data[t].key_found = 1 /\ thread_data[t].key_not_found = 1

\* C6: the three differences handed to the per-worker printf are never
\* negative (the unsigned subtractions do not wrap).
C6_DeltasNonNegative == total >= 0 /\ misses >= 0 /\ hits >= 0

\* a later sample: the previous snapshot is not zero and the reader counted on
C6_Witness ==
    /\ pc = "save_found" /\ hits > 0
    /\ old_thread_data[i].key_found > 0

\* C7 (as claimed): the total printed for a worker is the sum of the misses
\* and hits printed with it.
C7_TotalIsSum == pc = "save_found" => total = misses + hits

\* C8 (as claimed): the average total of the summary line is the sum of the
\* average misses and the average hits.
C8_AvgTotalIsSum ==
    summary # <<>> => summary[1] = summary[2] + summary[3]

\* C8 (amended): the three numbers are the unsigned quotients by seconds of
\* the summed counters, and the average total is the sum of the other two
\* or one more.
C8_AvgTotalWithinOne ==
    summary # <<>> =>
        /\ summary[1] * seconds <= key_found + key_not_found
        /\ key_found + key_not_found < (summary[1] + 1) * seconds
        /\ summary[2] * seconds <= key_not_found
        /\ key_not_found < (summary[2] + 1) * seconds
        /\ summary[3] * seconds <= key_found
        /\ key_found < (summary[3] + 1) * seconds
        /\ summary[1] - (summary[2] + summary[3]) \in {0, 1}

\* a summary whose total is one more than misses + hits
C8_Witness ==
    /\ summary # <<>>
    /\ summary[1] = summary[2] + summary[3] + 1

\* C9: the countdown starts at seconds, loses exactly 1 per "read:" line,
\* never goes below 0, is positive while the loop runs and 0 after it, so
\* seconds lines precede the summary.
C9_ExactlySecondsTicks ==
    /\ (pc \in LoopPcs \cup FinalPcs \/ Completed) =>
          /\ remaining_time >= 0
          /\ remaining_time + lines = seconds + (IF pc = "countdown" THEN 1 ELSE 0)
    /\ pc \in LoopPcs => remaining_time > 0
    /\ (pc \in FinalPcs \/ Completed) => remaining_time = 0 /\ lines = seconds

\* a run completed after its "read:" lines
C9_Witness == Completed /\ lines = seconds /\ lines >= 5

Linked(k) == {n \in Nodes : node_state[n] = "live" /\ node_key[n] = k}
\* main takes a step (readers and the call_rcu worker leave pc and i alone)
MainSteps == <<pc, i>>' # <<pc, i>>

\* C11: once add_node has inserted key 0 the key stays in the container until
\* del_node of key 0 begins; a reader's lookup made while it is there returns
\* a node, and the reader then adds 1 to key_found and nothing to
\* key_not_found.
C11_LookupFindsInsertedKey ==
    /\ [][ (pc = "add_node" /\ i = 0 /\ MainSteps /\ FreeBlocks # {})
              => Linked(0)' # {} ]_vars
    /\ [][ (Linked(0) # {} /\ ~(pc = "del_node" /\ i = 0)) => Linked(0)' # {} ]_vars
    /\ [][ \A t \in Threads :
              (rpc[t] = "lookup" /\ rpc'[t] = "tally" /\ Linked(0) # {})
                 => rnode'[t] \in Linked(0) ]_vars
    /\ [][ \A t \in Threads :
              (rpc[t] = "tally" /\ rnode[t] # NULL) =>
                 \/ rpc'[t] = "tally" /\ rnode'[t] = rnode[t]
                                     /\ thread_data'[t] = thread_data[t]
                 \/ /\ rpc'[t] = "unlock"
                    /\ thread_data'[t].key_found = thread_data[t].key_found + 1
                    /\ thread_data'[t].key_not_found = thread_data[t].key_not_found
          ]_vars

\* while main sleeps with key 0 inserted, a reader that entered its critical
\* section after the insert has tallied a hit
C11_Witness ==
    /\ pc = "sleep"
    /\ \E t \in Threads :
          /\ rpc[t] = "unlock" /\ rnode[t] \in Linked(0)
          /\ thread_data[t].key_found >= 1
          /\ \A n \in Nodes : t \notin at_unlink[n]

\* C12: key 0 is absent at the start and after every completed del_node of
\* key 0, and only add_node of key 0 ends that; a reader's lookup made while
\* it is absent returns NULL, and the reader then adds 1 to key_not_found and
\* nothing to key_found.
C12_LookupMissesAbsentKey ==
    /\ Linked(0) = {}
    /\ [][ (Linked(0) = {} /\ Linked(0)' # {}) => (pc = "add_node" /\ i = 0) ]_vars
    /\ [][ (pc = "del_node" /\ i = 0 /\ MainSteps) => Linked(0)' = {} ]_vars
    /\ [][ \A t \in Threads :
              (rpc[t] = "lookup" /\ rpc'[t] = "tally" /\ Linked(0) = {})
                 => rnode'[t] = NULL ]_vars
    /\ [][ \A t \in Threads :
              (rpc[t] = "tally" /\ rnode[t] = NULL) =>
                 \/ rpc'[t] = "tally" /\ rnode'[t] = rnode[t]
                                     /\ thread_data'[t] = thread_data[t]
                 \/ /\ rpc'[t] = "unlock"
                    /\ thread_data'[t].key_not_found = thread_data[t].key_not_found + 1
                    /\ thread_data'[t].key_found = thread_data[t].key_found
          ]_vars

\* key 0 was removed (its node waits for reclamation), key 1 is still in the
\* container, and a reader that entered its critical section after the
\* removal has tallied a miss
C12_Witness ==
    \E t \in Threads, n \in Nodes :
        /\ node_state[n] = "queued" /\ node_key[n] = 0 /\ t \notin at_unlink[n]
        /\ Linked(0) = {} /\ Linked(1) # {}
        /\ rpc[t] = "unlock" /\ rnode[t] = NULL
        /\ thread_data[t].key_not_found >= 1

\* hash-table creation failed, or one of the three calloc calls returned NULL
ResourceFailure ==
    \/ /\ pc = "exited" /\ global_ht = NULL
       /\ Len(core_list) >= 2 /\ seconds >= 5 /\ objects >= 1
    \/ master_core # -1 /\ \E a \in Arrays : ~calloc_ok[a]

\* C13 (as claimed): after a failed hash-table creation or a failed
\* allocation of one of the three arrays no reader thread is started and the
\* process exits with no status other than 1.
C13_ResourceFailureExits1 ==
    ResourceFailure =>
        /\ \A t \in Threads : ~Started(t)
        /\ exit_status \in {RUNNING, 1}

\* C14 (as claimed, for the found counter): the value retained in
\* old_thread_data[i].key_found is the one the printed hit delta was computed
\* from, that is the previous snapshot plus the printed delta.
C14_SnapshotIsPrintedValue ==
    [][ (pc = "save_found" /\ pc' = "save_not_found") =>
           old_thread_data'[i].key_found = old_thread_data[i].key_found + hits ]_vars

\* C15 (as claimed): every "read:" line stands for one wall-clock second: when
\* a sample is taken exactly one second has elapsed since the previous sample
\* (or since the start of the measurement).
C15_OneLinePerSecond == pc = "sample" => tv_sec = 1

LiveKeys == {node_key[n] : n \in {m \in Nodes : node_state[m] = "live"}}

\* C17: the insert phase starts on an empty container and goes through the
\* keys 0..objects-1 in order, each add_node that gets its node adding its key;
\* between the two phases (sleep, sampling) the keys do not change and are
\* among 0..objects-1; the remove phase goes through the same keys in order,
\* each del_node removing its key.
C17_MutatorCycle ==
    /\ [](pc = "add_node" => i < objects /\ \A k \in LiveKeys : k < i)
    /\ [](pc \in LoopPcs \ {"add_node", "del_node"} => LiveKeys \subseteq 0..(objects - 1))
    /\ [](pc = "del_node" => i < objects /\ \A k \in LiveKeys : i <= k /\ k < objects)
    /\ [][ (pc = "add_node" /\ MainSteps /\ FreeBlocks # {})
              => LiveKeys' = LiveKeys \cup {i} ]_vars
    /\ [][ (pc = "del_node" /\ MainSteps) => LiveKeys' = LiveKeys \ {i} ]_vars
    /\ [][ (pc \notin {"add_node", "del_node"} \/ ~MainSteps)
              => LiveKeys' = LiveKeys ]_vars

\* a later cycle with two objects: main sleeps with exactly keys 0 and 1 in
\* the container
C17_Witness ==
    /\ pc = "sleep" /\ objects = 2 /\ lines >= 1
    /\ LiveKeys = 0..(objects - 1)

\* C18: the container never holds two entries under one key.
C18_OneEntryPerKey ==
    \A n, m \in Nodes :
        (node_state[n] = "live" /\ node_state[m] = "live" /\ node_key[n] = node_key[m])
            => n = m

\* add_node was called for a key that had an entry: the old entry was
\* displaced and the new one is the key's only entry
C18_Witness ==
    \E n \in Nodes :
        /\ node_state[n] = "replaced"
        /\ Cardinality(Linked(node_key[n])) = 1

\* C19: a step of reader t leaves the other workers' counters, its own
\* core_id, the previous-snapshot array and the container's entries unchanged;
\* and no step other than reader t's own changes the found / not_found
\* counters of a started worker t.
C19_SingleWriter ==
    /\ [][ \A t \in Threads :
              (rpc[t] # "none" /\ rpc'[t] # rpc[t]) =>
                 /\ \A u \in Threads \ {t} : thread_data'[u] = thread_data[u]
                 /\ thread_data'[t].core_id = thread_data[t].core_id
                 /\ old_thread_data' = old_thread_data
                 /\ node_state' = node_state /\ node_key' = node_key ]_vars
    /\ [][ \A t \in Threads :
              (Started(t) /\ rpc'[t] = rpc[t]) =>
                 /\ thread_data'[t].key_found = thread_data[t].key_found
                 /\ thread_data'[t].key_not_found = thread_data[t].key_not_found ]_vars

\* main is between its two snapshot assignments while the reader, with a
\* key in the container, has counted past the previous snapshot
C19_Witness ==
    /\ pc = "save_not_found" /\ LiveKeys # {}
    /\ \E t \in Threads :
          /\ rpc[t] = "unlock"
          /\ Lookups(t) > old_thread_data[t].key_found + old_thread_data[t].key_not_found
          /\ old_thread_data[t].key_found > 0

\* C20: add_node(i) is only called while key i (and every key still to be
\* inserted in this phase) has no entry, so no node is ever displaced by
\* add_replace; a node goes from malloc into the container by add_node, leaves
\* the container only by del_node of its key, which hands it to call_rcu, and
\* is freed only after that: free -> live -> queued -> free.
C20_NoDisplacement ==
    /\ [](\A n \in Nodes : node_state[n] # "replaced")
    /\ [](pc = "add_node" => \A k \in i..(objects - 1) : Linked(k) = {})
    /\ [][ \A n \in Nodes :
              node_state'[n] # node_state[n] =>
                 \/ /\ node_state[n] = "free" /\ node_state'[n] = "live"
                    /\ pc = "add_node" /\ node_key'[n] = i
                 \/ /\ node_state[n] = "live" /\ node_state'[n] = "queued"
                    /\ pc = "del_node" /\ node_key[n] = i
                    /\ gp'[n] = ReadersInCS
                 \/ /\ node_state[n] = "queued" /\ node_state'[n] = "free"
                    /\ gp[n] = {} ]_vars

\* key 0 was inserted again while the node removed under key 0 in the
\* previous cycle still waits for its grace period
C20_Witness ==
    /\ pc = "sleep"
    /\ \E n, m \in Nodes :
          /\ node_state[n] = "queued" /\ node_key[n] = 0 /\ gp[n] # {}
          /\ node_state[m] = "live" /\ node_key[m] = 0

====
